---- MODULE Spec2Model ----
(***************************************************************************)
(* Model of the aviation manual ingestion and hybrid search scripts        *)
(* (ingest_aviation_manuals.py, aviation_manual_processor.py).             *)
(*                                                                         *)
(* A text is a sequence of tokens.  A token is either a whitespace token   *)
(* (" " or "\n") or a word (a maximal run of non-whitespace characters).   *)
(* In a text two words are always separated by at least one whitespace     *)
(* token.  Word tokens used by the regular expressions of the source:      *)
(*   "SECTION", "3.2:", "ATA", "Chapter", "49", "12" (two-digit numbers),  *)
(*   "APU-MSTR-RESET", "ENG-12345-A" (part numbers), "w" (a plain          *)
(*   alphabetic word of two or more letters), "|" (a word of punctuation). *)
(***************************************************************************)
EXTENDS Integers, Sequences, FiniteSets, TLC

(***************************************************************************)
(* Bounds of the model.                                                    *)
(***************************************************************************)
MaxLen == 58        \* longest word sequence given to the chunk_text machine
MaxSmall == 3       \* small max_tokens values 1..MaxSmall, and MIN_WORDS+1..MIN_WORDS+MaxSmall
MaxMetaWords == 5   \* longest word sequence given to the metadata extractors
MaxDocs == 4        \* documents the engine holds when a search is made
MaxK == 3           \* largest number of results asked of a search
MaxRuns == 2        \* ingestion runs started in one behaviour

(***************************************************************************)
(* Program constants.                                                      *)
(***************************************************************************)
DEFAULT_MAX_TOKENS == 800
DEFAULT_OVERLAP == 120
MIN_WORDS == 50
WINDOW_SIZE == 100
RANK_CONSTANT == 60

Min(a, b) == IF a < b THEN a ELSE b
Max(a, b) == IF a > b THEN a ELSE b

IsWs(tok) == tok \in {" ", "\n"}
IsWord(tok) == ~IsWs(tok)

\* str.split(): the words of a text, whitespace runs removed
split(t) == SelectSeq(t, IsWord)

\* " ".join(ws): the words separated by single spaces
join(ws) ==
  IF Len(ws) = 0 THEN <<>>
  ELSE [i \in 1..(2 * Len(ws) - 1) |-> IF i % 2 = 1 THEN ws[(i + 1) \div 2] ELSE " "]

\* Python slice s[a:b] of a list, negative indices counted from the end
PyIndex(n, i) == IF i < 0 THEN Max(i + n, 0) ELSE Min(i, n)
PySlice(s, a, b) ==
  LET lo == PyIndex(Len(s), a)
      hi == PyIndex(Len(s), b)
  IN IF lo >= hi THEN <<>> ELSE SubSeq(s, lo + 1, hi)

\* len(c.split())
word_count(c) == Len(split(c))

\* the final pass of chunk_text: [c for c in chunks if len(c.split()) > 50]
KeepChunk_AtLeast(c) == word_count(c) >= MIN_WORDS
KeepChunk(c) == word_count(c) > MIN_WORDS
filter_chunks(cs) == SelectSeq(cs, KeepChunk)

\* one iteration of the while loop of chunk_text
chunk_end(ws, st, m) == Min(st + m, Len(ws))
chunk_of(ws, st, m) == join(PySlice(ws, st, chunk_end(ws, st, m)))
next_start_NoOverlap(ws, st, m, o) == chunk_end(ws, st, m)
next_start(ws, st, m, o) == chunk_end(ws, st, m) - o

(***************************************************************************)
(* Regular expressions of the metadata extractors, on token sequences.     *)
(* A matcher gives the index of the last token of the match that starts    *)
(* at token i, or 0 when the pattern does not match there.                 *)
(***************************************************************************)
TwoDigits == {"49", "12"}
PartNumbers == {"APU-MSTR-RESET", "ENG-12345-A"}
\* words whose first character is a letter, with a further character of
\* the class [A-Za-z0-9\-\s] after it
LetterWords == {"w", "ATA", "Chapter", "SECTION"} \cup PartNumbers
\* tokens made only of characters of the class [A-Za-z0-9\-\s]
ClassTokens == LetterWords \cup TwoDigits \cup {" ", "\n"}

Tok(t, i) == IF i >= 1 /\ i <= Len(t) THEN t[i] ELSE "<end>"

MinOf(S) == CHOOSE x \in S : \A y \in S : x <= y

\* \s* : the first index from i on that is not whitespace
RECURSIVE SkipWs(_, _)
SkipWs(t, i) == IF i <= Len(t) /\ IsWs(t[i]) THEN SkipWs(t, i + 1) ELSE i

\* ATA\s*Chapter\s*\d{2}
MatchAtaChapter(t, i) ==
  LET j == SkipWs(t, i + 1)
      k == SkipWs(t, j + 1)
  IN IF Tok(t, i) = "ATA" /\ Tok(t, j) = "Chapter" /\ Tok(t, k) \in TwoDigits
       THEN k ELSE 0

\* ATA\s*\d{2}
MatchAtaBare(t, i) ==
  LET j == SkipWs(t, i + 1)
  IN IF Tok(t, i) = "ATA" /\ Tok(t, j) \in TwoDigits THEN j ELSE 0

\* ATA\s*(?:Chapter\s*)?\d{2}
MatchAtaOptional(t, i) ==
  IF MatchAtaChapter(t, i) # 0 THEN MatchAtaChapter(t, i) ELSE MatchAtaBare(t, i)

\* SECTION\s+\d+[\.\d]*\s*[:\-]\s*[A-Z][A-Za-z0-9\-\s]+  (greedy): the match
\* runs over every following token of the class and ends before the first
\* other token
MatchSection(t, i) ==
  LET j == SkipWs(t, i + 1)
      k == SkipWs(t, j + 1)
      stops == {x \in (k + 1)..Len(t) : t[x] \notin ClassTokens}
  IN IF /\ Tok(t, i) = "SECTION" /\ j > i + 1
        /\ Tok(t, j) = "3.2:" /\ Tok(t, k) \in LetterWords
       THEN (IF stops = {} THEN Len(t) ELSE MinOf(stops) - 1)
       ELSE 0

\* the text of the section match that starts at i: "3.2:" right after the
\* run gives its leading digit to the match
SectionGroup(t, i) ==
  LET e == MatchSection(t, i)
  IN IF Tok(t, e + 1) = "3.2:" THEN Append(SubSeq(t, i, e), "3") ELSE SubSeq(t, i, e)

\* \b([A-Z]{2,}-[A-Z0-9]{2,}[A-Z0-9\-]*)\b
MatchPartNumber(t, i) == IF Tok(t, i) \in PartNumbers THEN i ELSE 0

\* str.strip(): without the whitespace at both ends
RECURSIVE FirstWord(_, _)
FirstWord(s, i) == IF i <= Len(s) /\ IsWs(s[i]) THEN FirstWord(s, i + 1) ELSE i
RECURSIVE LastWord(_, _)
LastWord(s, i) == IF i >= 1 /\ IsWs(s[i]) THEN LastWord(s, i - 1) ELSE i
strip(s) == SubSeq(s, FirstWord(s, 1), LastWord(s, Len(s)))

\* the tokens a match of a pattern can start with
FirstTokens == {"SECTION", "ATA"} \cup PartNumbers

\* the patterns of the source, by name
Match(p, t, i) ==
  CASE p = "section" -> MatchSection(t, i)
    [] p = "ata_chapter" -> MatchAtaChapter(t, i)
    [] p = "ata_bare" -> MatchAtaBare(t, i)
    [] p = "ata_optional" -> MatchAtaOptional(t, i)
    [] p = "part_number" -> MatchPartNumber(t, i)

\* re.search: the leftmost index where pattern p matches, 0 when none
re_search(p, t) ==
  LET found == {i \in 1..Len(t) : t[i] \in FirstTokens /\ Match(p, t, i) # 0}
  IN IF found = {} THEN 0 ELSE MinOf(found)

\* m.group(0).strip() of a search, "" when there is no match
group0(p, t) ==
  LET i == re_search(p, t)
  IN IF i = 0 THEN <<>>
     ELSE IF p = "section" THEN strip(SectionGroup(t, i))
     ELSE strip(SubSeq(t, i, Match(p, t, i)))

\* infer_section: two patterns, tried in order, both case-insensitive
SectionPatterns == <<"section", "section">>
infer_section(t) ==
  LET m1 == group0(SectionPatterns[1], t)
  IN IF m1 # <<>> THEN m1 ELSE group0(SectionPatterns[2], t)

\* infer_chapter: "ATA Chapter NN" tried first, then bare "ATA NN"
ChapterPatterns == <<"ata_chapter", "ata_bare">>
infer_chapter(t) ==
  LET m1 == group0(ChapterPatterns[1], t)
  IN IF m1 # <<>> THEN m1 ELSE group0(ChapterPatterns[2], t)

\* infer_part_number: m.group(1), no strip
infer_part_number(t) ==
  LET i == re_search("part_number", t)
  IN IF i = 0 THEN <<>> ELSE SubSeq(t, i, Match("part_number", t, i))

\* AviationManualProcessor.extract_metadata: one search per field
extract_metadata(t) ==
  [section |-> group0("section", t),
   ata_chapter |-> group0("ata_optional", t),
   part_number |-> infer_part_number(t)]

\* chunk_text as a function: the while loop, then the filter
RECURSIVE chunk_loop(_, _, _, _, _)
chunk_loop(ws, m, o, st, cs) ==
  IF ~(st < Len(ws)) THEN cs
  ELSE IF chunk_end(ws, st, m) >= Len(ws) THEN Append(cs, chunk_of(ws, st, m))
  ELSE chunk_loop(ws, m, o, next_start(ws, st, m, o), Append(cs, chunk_of(ws, st, m)))

chunk_text(t, m, o) == filter_chunks(chunk_loop(split(t), m, o, 0, <<>>))

\* re.sub(r"\s+", " ", text): every maximal whitespace run becomes one space
WithPrev(t) == [i \in 1..Len(t) |-> <<t[i], IF i = 1 THEN "^" ELSE t[i - 1]>>]
StartsRun(pr) == ~(IsWs(pr[1]) /\ IsWs(pr[2]))
collapse_ws(t) ==
  LET kept == SelectSeq(WithPrev(t), StartsRun)
  IN [i \in 1..Len(kept) |-> IF IsWs(kept[i][1]) THEN " " ELSE kept[i][1]]

\* re.sub(r"\s+", " ", text).strip()
normalize(t) == strip(collapse_ws(t))

\* extract_text_by_page: the non-empty normalized pages, numbered from 1
NonEmptyPage(pg) == pg.text # <<>>
extract_text_by_page(raw) ==
  SelectSeq([i \in 1..Len(raw) |-> [page |-> i, text |-> normalize(raw[i])]], NonEmptyPage)

\* model.encode(chunk, normalize_embeddings=True).tolist(): a vector that is
\* a function of the chunk text
encode(c) == <<"vec", word_count(c)>>

\* str(uuid4()): the k-th identifier drawn after n identifiers; no
\* identifier is drawn twice
uuid4_PerPage(n, k) == n + 1
uuid4(n, k) == n + k

(***************************************************************************)
(* The chunk_text machine: one call of chunk_text, one loop iteration per  *)
(* step.  ranges records the (start, end) pair of every iteration.         *)
(***************************************************************************)
VARIABLES text, max_tokens, overlap, words, start, chunks, ranges, pc, result

chunkVars == <<text, max_tokens, overlap, words, start, chunks, ranges, pc, result>>

\* one call of each metadata extractor on the same text
VARIABLES mtext, mpc, m_section, m_chapter, m_part_number, m_metadata

metaVars == <<mtext, mpc, m_section, m_chapter, m_part_number, m_metadata>>

\* the search engine: whether the index exists, and its documents by _id
VARIABLES es_index, es_docs
\* the number of identifiers uuid4 has given out
VARIABLE drawn
\* the ingestion runs, one per process: position and locals of index_pdf
VARIABLES ipc, manual_id, pages, page_idx, section, chapter, part_number,
          actions, chunk_count, printed, returned, raised
\* history of the runs: runs started, the pages whose metadata each run
\* extracted, the actions the batch write of each run rejected, and per
\* manual the batch writes sent and the documents the engine accepted and
\* refused
VARIABLES started, meta_calls, rejected, bulk_runs, accepted, refused

ingestVars == <<es_index, es_docs, drawn, ipc, manual_id, pages, page_idx, section,
                chapter, part_number, actions, chunk_count, printed, returned, raised,
                started, meta_calls, rejected, bulk_runs, accepted, refused>>

\* one call of hybrid_search: the size asked, the rankings the engine
\* computed for the two sub searches, and the hits returned
VARIABLES spc, size, lexical, vector, hits

searchVars == <<spc, size, lexical, vector, hits>>

vars == <<chunkVars, metaVars, ingestVars, searchVars>>

notChunkVars == <<metaVars, ingestVars, searchVars>>
notMetaVars == <<chunkVars, ingestVars, searchVars>>
notIngestVars == <<chunkVars, metaVars, searchVars>>
notSearchVars == <<chunkVars, metaVars, ingestVars>>

MaxChunks == MaxLen + 1

Fill(n) == [i \in 1..n |-> "w"]

MaxTokensSet == (1..MaxSmall) \cup ((MIN_WORDS + 1)..(MIN_WORDS + MaxSmall)) \cup {DEFAULT_MAX_TOKENS}
OverlapSet == (0..(MaxSmall + 1)) \cup {MIN_WORDS} \cup {DEFAULT_OVERLAP}

ChunkIdle ==
  /\ text = <<>> /\ max_tokens = DEFAULT_MAX_TOKENS /\ overlap = DEFAULT_OVERLAP
  /\ words = <<>> /\ start = 0 /\ chunks = <<>> /\ ranges = <<>>
  /\ pc = "idle" /\ result = <<>>

ChunkInit ==
  /\ \E L \in 0..MaxLen : text = join(Fill(L))
  /\ max_tokens \in MaxTokensSet
  /\ overlap \in OverlapSet
  /\ words = <<>>
  /\ start = 0
  /\ chunks = <<>>
  /\ ranges = <<>>
  /\ pc = "call"
  /\ result = <<>>

\* words = text.split(); chunks = []; start = 0
ChunkEnter ==
  /\ pc = "call"
  /\ words' = split(text)
  /\ chunks' = <<>>
  /\ start' = 0
  /\ pc' = "loop"
  /\ UNCHANGED <<text, max_tokens, overlap, ranges, result>>
  /\ UNCHANGED notChunkVars

\* a loop iteration: emit a chunk, then break or move start back by overlap
ChunkIter ==
  /\ pc = "loop"
  /\ start < Len(words)
  /\ Len(chunks) < MaxChunks
  /\ chunks' = Append(chunks, chunk_of(words, start, max_tokens))
  /\ ranges' = Append(ranges, <<start, chunk_end(words, start, max_tokens)>>)
  /\ IF chunk_end(words, start, max_tokens) >= Len(words)
       THEN /\ pc' = "filter"
            /\ start' = start
       ELSE /\ pc' = "loop"
            /\ start' = next_start(words, start, max_tokens, overlap)
  /\ UNCHANGED <<text, max_tokens, overlap, words, result>>
  /\ UNCHANGED notChunkVars

\* the while condition is false
ChunkExit ==
  /\ pc = "loop"
  /\ ~(start < Len(words))
  /\ pc' = "filter"
  /\ UNCHANGED <<text, max_tokens, overlap, words, start, chunks, ranges, result>>
  /\ UNCHANGED notChunkVars

\* return [c for c in chunks if len(c.split()) > 50]
ChunkReturn ==
  /\ pc = "filter"
  /\ result' = filter_chunks(chunks)
  /\ pc' = "done"
  /\ UNCHANGED <<text, max_tokens, overlap, words, start, chunks, ranges>>
  /\ UNCHANGED notChunkVars

ChunkNext == ChunkEnter \/ ChunkIter \/ ChunkExit \/ ChunkReturn

(***************************************************************************)
(* The metadata extractors, each applied to the same normalized text: the   *)
(* three infer_ functions in the order index_pdf calls them, then          *)
(* AviationManualProcessor.extract_metadata.                               *)
(***************************************************************************)
MetaWords == {"ATA", "Chapter", "49", "12", "SECTION", "3.2:", "APU-MSTR-RESET", "|"}

RECURSIVE WordSeqs(_)
WordSeqs(n) ==
  IF n = 0 THEN {<<>>}
  ELSE LET shorter == WordSeqs(n - 1)
       IN shorter \cup {Append(ws, w) : ws \in {x \in shorter : Len(x) = n - 1}, w \in MetaWords}

NoMetadata == [section |-> <<>>, ata_chapter |-> <<>>, part_number |-> <<>>]

MetaIdle ==
  /\ mtext = <<>> /\ mpc = "idle"
  /\ m_section = <<>> /\ m_chapter = <<>> /\ m_part_number = <<>>
  /\ m_metadata = NoMetadata

MetaInit ==
  /\ \E ws \in WordSeqs(MaxMetaWords) : mtext = join(ws)
  /\ mpc = "section"
  /\ m_section = <<>> /\ m_chapter = <<>> /\ m_part_number = <<>>
  /\ m_metadata = NoMetadata

CallInferSection ==
  /\ mpc = "section"
  /\ m_section' = infer_section(mtext)
  /\ mpc' = "chapter"
  /\ UNCHANGED <<mtext, m_chapter, m_part_number, m_metadata>>
  /\ UNCHANGED notMetaVars

CallInferChapter ==
  /\ mpc = "chapter"
  /\ m_chapter' = infer_chapter(mtext)
  /\ mpc' = "part_number"
  /\ UNCHANGED <<mtext, m_section, m_part_number, m_metadata>>
  /\ UNCHANGED notMetaVars

CallInferPartNumber ==
  /\ mpc = "part_number"
  /\ m_part_number' = infer_part_number(mtext)
  /\ mpc' = "extract_metadata"
  /\ UNCHANGED <<mtext, m_section, m_chapter, m_metadata>>
  /\ UNCHANGED notMetaVars

CallExtractMetadata ==
  /\ mpc = "extract_metadata"
  /\ m_metadata' = extract_metadata(mtext)
  /\ mpc' = "done"
  /\ UNCHANGED <<mtext, m_section, m_chapter, m_part_number>>
  /\ UNCHANGED notMetaVars

MetaNext ==
  \/ CallInferSection \/ CallInferChapter \/ CallInferPartNumber \/ CallExtractMetadata

(***************************************************************************)
(* Ingestion: index_pdf runs, one per process, over the shared engine.     *)
(***************************************************************************)
INDEX_NAME == "aviation_manuals"

Procs == {"p1", "p2"}

ManualIds == {"APU_MANUAL_001", "ENG_MANUAL_002"}

\* the text PyPDF2 extracts for a page with the given words: whitespace
\* before, between and after the words, with line breaks
RawText(ws) ==
  <<" ">> \o [i \in 1..(2 * Len(ws) + 1) |->
                IF i % 2 = 0 THEN ws[i \div 2]
                ELSE IF (i \div 2) % 5 = 0 THEN "\n" ELSE " "]

\* 51 words: a section heading, a bare ATA code, a part number
PageA1 == <<"SECTION", "3.2:", "w", "w", "|", "ATA", "49", "APU-MSTR-RESET">>
            \o Fill(MIN_WORDS + 1 - 8)
\* 55 words: a bare ATA code and another part number
PageA3 == <<"w", "ATA", "12", "|", "ENG-12345-A">> \o Fill(MIN_WORDS)
\* 801 words: two chunks; a bare ATA code and a section heading at the
\* start, an ATA chapter and a part number at the end
PageB1 == <<"ATA", "12", "w", "SECTION", "3.2:", "w", "|">>
            \o Fill(DEFAULT_MAX_TOKENS + 1 - 7 - 4)
            \o <<"ATA", "Chapter", "49", "ENG-12345-A">>

\* the pages of the manuals as extracted: APU_MANUAL_001 has 3 pages, page 2
\* only whitespace; ENG_MANUAL_002 a long page, a page of 50 words and a
\* page with no text
RawPages(m) ==
  IF m = "APU_MANUAL_001"
    THEN <<RawText(PageA1), <<"\n", " ">>, RawText(PageA3)>>
    ELSE <<RawText(PageB1), RawText(Fill(MIN_WORDS)), <<>>>>

NoPage == [page |-> 0, text |-> <<>>]

IngestInit ==
  /\ es_index = FALSE
  /\ es_docs = <<>>
  /\ drawn = 0
  /\ ipc = [p \in Procs |-> "idle"]
  /\ manual_id = [p \in Procs |-> ""]
  /\ pages = [p \in Procs |-> <<>>]
  /\ page_idx = [p \in Procs |-> 0]
  /\ section = [p \in Procs |-> <<>>]
  /\ chapter = [p \in Procs |-> <<>>]
  /\ part_number = [p \in Procs |-> <<>>]
  /\ actions = [p \in Procs |-> <<>>]
  /\ chunk_count = [p \in Procs |-> 0]
  /\ printed = [p \in Procs |-> <<>>]
  /\ returned = [p \in Procs |-> <<>>]
  /\ raised = [p \in Procs |-> ""]
  /\ started = 0
  /\ meta_calls = [p \in Procs |-> <<>>]
  /\ rejected = [p \in Procs |-> {}]
  /\ bulk_runs = [m \in ManualIds |-> 0]
  /\ accepted = [m \in ManualIds |-> 0]
  /\ refused = [m \in ManualIds |-> 0]

IngestIdle == IngestInit

\* a caller starts index_pdf(pdf_path, manual_id)
StartRun(p, m) ==
  /\ ipc[p] \in {"idle", "done", "error"}
  /\ started < MaxRuns
  /\ started' = started + 1
  /\ ipc' = [ipc EXCEPT ![p] = "exists"]
  /\ manual_id' = [manual_id EXCEPT ![p] = m]
  /\ pages' = [pages EXCEPT ![p] = <<>>]
  /\ page_idx' = [page_idx EXCEPT ![p] = 0]
  /\ section' = [section EXCEPT ![p] = <<>>]
  /\ chapter' = [chapter EXCEPT ![p] = <<>>]
  /\ part_number' = [part_number EXCEPT ![p] = <<>>]
  /\ actions' = [actions EXCEPT ![p] = <<>>]
  /\ chunk_count' = [chunk_count EXCEPT ![p] = 0]
  /\ printed' = [printed EXCEPT ![p] = <<>>]
  /\ returned' = [returned EXCEPT ![p] = <<>>]
  /\ raised' = [raised EXCEPT ![p] = ""]
  /\ meta_calls' = [meta_calls EXCEPT ![p] = <<>>]
  /\ rejected' = [rejected EXCEPT ![p] = {}]
  /\ UNCHANGED <<es_index, es_docs, drawn, bulk_runs, accepted, refused>>
  /\ UNCHANGED notIngestVars

\* create_index: if es.indices.exists(index=INDEX_NAME): return
CreateIndexExists(p) ==
  /\ ipc[p] = "exists"
  /\ ipc' = [ipc EXCEPT ![p] = IF es_index THEN "extract" ELSE "create"]
  /\ UNCHANGED <<es_index, es_docs, drawn, manual_id, pages, page_idx, section, chapter,
                 part_number, actions, chunk_count, printed, returned, raised,
                 started, meta_calls, rejected, bulk_runs, accepted, refused>>
  /\ UNCHANGED notIngestVars

\* create_index: es.indices.create(index=INDEX_NAME, ...); the engine answers
\* resource_already_exists_exception when the index exists by now
CreateIndexCreate(p) ==
  /\ ipc[p] = "create"
  /\ IF es_index
       THEN /\ raised' = [raised EXCEPT ![p] = "BadRequestError"]
            /\ ipc' = [ipc EXCEPT ![p] = "error"]
            /\ UNCHANGED es_index
       ELSE /\ es_index' = TRUE
            /\ ipc' = [ipc EXCEPT ![p] = "extract"]
            /\ UNCHANGED raised
  /\ UNCHANGED <<es_docs, drawn, manual_id, pages, page_idx, section, chapter,
                 part_number, actions, chunk_count, printed, returned,
                 started, meta_calls, rejected, bulk_runs, accepted, refused>>
  /\ UNCHANGED notIngestVars

\* pages = extract_text_by_page(pdf_path); actions = []; chunk_count = 0
ExtractPages(p) ==
  /\ ipc[p] = "extract"
  /\ pages' = [pages EXCEPT ![p] = extract_text_by_page(RawPages(manual_id[p]))]
  /\ actions' = [actions EXCEPT ![p] = <<>>]
  /\ chunk_count' = [chunk_count EXCEPT ![p] = 0]
  /\ page_idx' = [page_idx EXCEPT ![p] = 1]
  /\ ipc' = [ipc EXCEPT ![p] = "pages"]
  /\ UNCHANGED <<es_index, es_docs, drawn, manual_id, section, chapter, part_number,
                 printed, returned, raised, started, meta_calls, rejected,
                 bulk_runs, accepted, refused>>
  /\ UNCHANGED notIngestVars

\* for p in pages: section, chapter, part_number from the page text
PageMetadata(p) ==
  /\ ipc[p] = "pages"
  /\ page_idx[p] <= Len(pages[p])
  /\ section' = [section EXCEPT ![p] = infer_section(pages[p][page_idx[p]].text)]
  /\ chapter' = [chapter EXCEPT ![p] = infer_chapter(pages[p][page_idx[p]].text)]
  /\ part_number' = [part_number EXCEPT ![p] = infer_part_number(pages[p][page_idx[p]].text)]
  /\ meta_calls' = [meta_calls EXCEPT ![p] = Append(@, pages[p][page_idx[p]].page)]
  /\ ipc' = [ipc EXCEPT ![p] = "chunks"]
  /\ UNCHANGED <<es_index, es_docs, drawn, manual_id, pages, page_idx, actions,
                 chunk_count, printed, returned, raised, started, rejected,
                 bulk_runs, accepted, refused>>
  /\ UNCHANGED notIngestVars

\* the metadata fields of the document of a chunk: the values of the page
doc_metadata_FromChunk(sec, chap, part, chunk) ==
  [section |-> infer_section(chunk), chapter |-> infer_chapter(chunk),
   part_number |-> infer_part_number(chunk)]
doc_metadata(sec, chap, part, chunk) ==
  [section |-> sec, chapter |-> chap, part_number |-> part]

\* the action built for the k-th chunk of the current page
DocOf(p, chunk, k) ==
  LET md == doc_metadata(section[p], chapter[p], part_number[p], chunk)
  IN [index |-> INDEX_NAME,
      id |-> uuid4(drawn, k),
      source |-> [content |-> chunk,
                  section |-> md.section,
                  chapter |-> md.chapter,
                  part_number |-> md.part_number,
                  manual_id |-> manual_id[p],
                  page |-> pages[p][page_idx[p]].page,
                  embedding |-> encode(chunk)]]

\* chunks = chunk_text(p["text"], max_tokens=800, overlap=120) and the loop
\* over the chunks: one action per chunk
PageChunks(p) ==
  /\ ipc[p] = "chunks"
  /\ LET cs == chunk_text(pages[p][page_idx[p]].text, DEFAULT_MAX_TOKENS, DEFAULT_OVERLAP)
     IN /\ actions' = [actions EXCEPT ![p] = @ \o [k \in 1..Len(cs) |-> DocOf(p, cs[k], k)]]
        /\ chunk_count' = [chunk_count EXCEPT ![p] = @ + Len(cs)]
        /\ drawn' = drawn + Len(cs)
  /\ page_idx' = [page_idx EXCEPT ![p] = @ + 1]
  /\ ipc' = [ipc EXCEPT ![p] = "pages"]
  /\ UNCHANGED <<es_index, es_docs, manual_id, pages, section, chapter, part_number,
                 printed, returned, raised, started, meta_calls, rejected,
                 bulk_runs, accepted, refused>>
  /\ UNCHANGED notIngestVars

\* the engine after a bulk request: every action that is not rejected is
\* indexed under its _id (a document with that _id is replaced)
Indexed(docs, acts, rej) ==
  LET ok == {k \in 1..Len(acts) : k \notin rej}
      ids == {acts[k].id : k \in ok}
      LastOf(i) == CHOOSE k \in ok : acts[k].id = i /\ \A j \in ok : acts[j].id = i => j <= k
  IN [i \in (DOMAIN docs) \cup ids |->
        IF i \in ids THEN acts[LastOf(i)].source ELSE docs[i]]

\* helpers.bulk(es, actions), then the print and the return: the engine
\* rejects any of the actions; with an action rejected helpers.bulk raises
\* BulkIndexError, after the other actions of the request were indexed
BulkWrite(p) ==
  /\ ipc[p] = "pages"
  /\ page_idx[p] > Len(pages[p])
  /\ \E rej \in SUBSET (1..Len(actions[p])) :
       /\ rejected' = [rejected EXCEPT ![p] = rej]
       /\ es_docs' = Indexed(es_docs, actions[p], rej)
       /\ bulk_runs' = [bulk_runs EXCEPT ![manual_id[p]] = @ + 1]
       /\ accepted' = [accepted EXCEPT ![manual_id[p]] = @ + Len(actions[p]) - Cardinality(rej)]
       /\ refused' = [refused EXCEPT ![manual_id[p]] = @ + Cardinality(rej)]
       /\ IF rej = {}
            THEN /\ printed' = [printed EXCEPT ![p] = <<chunk_count[p], Len(pages[p])>>]
                 /\ returned' = [returned EXCEPT ![p] = <<>>]
                 /\ ipc' = [ipc EXCEPT ![p] = "done"]
                 /\ UNCHANGED raised
            ELSE /\ raised' = [raised EXCEPT ![p] = "BulkIndexError"]
                 /\ ipc' = [ipc EXCEPT ![p] = "error"]
                 /\ UNCHANGED <<printed, returned>>
  /\ UNCHANGED <<es_index, drawn, manual_id, pages, page_idx, section, chapter,
                 part_number, actions, chunk_count, started, meta_calls>>
  /\ UNCHANGED notIngestVars

IngestNext ==
  \/ \E p \in Procs, m \in ManualIds : StartRun(p, m)
  \/ \E p \in Procs : CreateIndexExists(p)
  \/ \E p \in Procs : CreateIndexCreate(p)
  \/ \E p \in Procs : ExtractPages(p)
  \/ \E p \in Procs : PageMetadata(p)
  \/ \E p \in Procs : PageChunks(p)
  \/ \E p \in Procs : BulkWrite(p)

(***************************************************************************)
(* Search: hybrid_search asks the engine for size=k hits of the reciprocal *)
(* rank fusion of two sub searches.  The rankings of the sub searches are  *)
(* the engine's: the kNN sub search ranks every document of the index (up  *)
(* to k=100), the BM25 sub search ranks the documents that match.          *)
(***************************************************************************)
DocIds == 1..MaxDocs

\* the rankings a sub search can give: sequences of distinct documents
Ranked(r) == {r[i] : i \in 1..Len(r)}
RECURSIVE Rankings(_)
Rankings(n) ==
  IF n = 0 THEN {<<>>}
  ELSE LET shorter == Rankings(n - 1)
           grown == {<<r, d>> \in shorter \X DocIds : Len(r) = n - 1 /\ d \notin Ranked(r)}
       IN shorter \cup {Append(g[1], g[2]) : g \in grown}

\* rank: {"rrf": {"window_size": 100, ...}}: the part of a ranking that is fused
Window(r) == SubSeq(r, 1, Min(WINDOW_SIZE, Len(r)))

RankIn(r, d) == IF \E i \in 1..Len(r) : r[i] = d THEN CHOOSE i \in 1..Len(r) : r[i] = d ELSE 0

\* the product of rank_constant + r over the ranks: scores are kept as
\* integers, ScoreScale times the fused score
RECURSIVE RankProduct(_)
RankProduct(n) == IF n = 0 THEN 1 ELSE (RANK_CONSTANT + n) * RankProduct(n - 1)
ScoreScale == RankProduct(MaxDocs)

\* the term of one ranking in the fused score: 1 / (rank_constant + rank)
RankTerm(r, d) ==
  IF RankIn(r, d) = 0 THEN 0 ELSE ScoreScale \div (RANK_CONSTANT + RankIn(r, d))

\* the fused score of a document: the sum of its terms
rrf_score(lex, vec, d) == RankTerm(Window(lex), d) + RankTerm(Window(vec), d)

Candidates(lex, vec) ==
  {Window(lex)[i] : i \in 1..Len(Window(lex))} \cup {Window(vec)[i] : i \in 1..Len(Window(vec))}

\* size=k: the number of hits of the response
response_size_All(k, n) == n
response_size(k, n) == Min(k, n)

\* the orders the engine can return the fused candidates in: the best
\* response_size of them, by fused score, highest first; documents with the
\* same score in any order
score_order_Ascending(a, b) == a <= b
score_order(a, b) == a >= b

RECURSIVE TopHits(_, _, _, _)
TopHits(lex, vec, cand, n) ==
  IF n = 0 \/ cand = {} THEN {<<>>}
  ELSE LET first == {d \in cand : \A e \in cand :
                       score_order(rrf_score(lex, vec, d), rrf_score(lex, vec, e))}
       IN UNION {{<<d>> \o r : r \in TopHits(lex, vec, cand \ {d}, n - 1)} : d \in first}

Responses(lex, vec, k) ==
  TopHits(lex, vec, Candidates(lex, vec),
          response_size(k, Cardinality(Candidates(lex, vec))))

\* resp["hits"]["hits"]: every hit with its fused score
HitsOf(lex, vec, h) == [i \in 1..Len(h) |-> [id |-> h[i], score |-> rrf_score(lex, vec, h[i])]]

SearchIdle ==
  /\ spc = "idle" /\ size = 0 /\ lexical = <<>> /\ vector = <<>> /\ hits = <<>>

SearchInit ==
  /\ spc = "call"
  /\ size \in 1..MaxK
  /\ lexical = <<>> /\ vector = <<>> /\ hits = <<>>

\* hybrid_search(query_text, k): es.search(size=k, rank={"rrf": ...},
\* sub_searches=[...]) and return resp["hits"]["hits"]
HybridSearch ==
  /\ spc = "call"
  /\ \E lex \in Rankings(MaxDocs), vec \in Rankings(MaxDocs) :
       /\ Ranked(lex) \subseteq Ranked(vec)
       /\ lexical' = lex
       /\ vector' = vec
       /\ \E h \in Responses(lex, vec, size) : hits' = HitsOf(lex, vec, h)
  /\ spc' = "done"
  /\ UNCHANGED size
  /\ UNCHANGED notSearchVars

SearchNext == HybridSearch

InitChunk == ChunkInit /\ MetaIdle /\ IngestIdle /\ SearchIdle

SpecChunk == InitChunk /\ [][ChunkNext]_vars

InitMeta == MetaInit /\ ChunkIdle /\ IngestIdle /\ SearchIdle

SpecMeta == InitMeta /\ [][MetaNext]_vars

InitIngest == IngestInit /\ ChunkIdle /\ MetaIdle /\ SearchIdle

SpecIngest == InitIngest /\ [][IngestNext]_vars

InitSearch == SearchInit /\ ChunkIdle /\ MetaIdle /\ IngestIdle

SpecSearch == InitSearch /\ [][SearchNext]_vars

(***************************************************************************)
(* Properties of chunk_text (checked under SpecChunk).                     *)
(***************************************************************************)
CeilDiv(a, b) == (a + b - 1) \div b

ValidConfig == 0 <= overlap /\ overlap < max_tokens

\* the chunk count stated for a valid configuration
ExpectedCount(L, M, O) == IF L > M THEN CeilDiv(L - O, M - O) ELSE 1

\* C1 (as stated): with 0 <= overlap < max_words, chunk_text returns
\* ceil((L-O)/(M-O)) chunks when L > M and 1 chunk otherwise.
C1_ReturnedCount ==
  (pc = "done" /\ ValidConfig) =>
     Len(result) = ExpectedCount(Len(words), max_tokens, overlap)

\* C1 (amended): with 0 <= overlap < max_words the loop of chunk_text emits
\* ceil((L-O)/(M-O)) chunks when L > M, 1 chunk when 1 <= L <= M and none when
\* L = 0; the first chunk starts at word 0, every later chunk starts exactly
\* overlap words before the end of its predecessor, every chunk is the
\* single-spaced word range [start, end); and chunk_text returns, in order,
\* exactly the emitted chunks that have more than 50 words.
C1_EmittedCountAndOverlap ==
  (pc \in {"filter", "done"} /\ ValidConfig) =>
     /\ Len(chunks) = (IF Len(words) = 0 THEN 0
                       ELSE ExpectedCount(Len(words), max_tokens, overlap))
     /\ Len(ranges) = Len(chunks)
     /\ \A k \in 1..Len(chunks) :
          /\ ranges[k][1] = (IF k = 1 THEN 0 ELSE ranges[k - 1][2] - overlap)
          /\ ranges[k][2] = Min(ranges[k][1] + max_tokens, Len(words))
          /\ chunks[k] = join(SubSeq(words, ranges[k][1] + 1, ranges[k][2]))
     /\ pc = "done" =>
          LET kept == {k \in 1..Len(chunks) : ranges[k][2] - ranges[k][1] > MIN_WORDS}
          IN /\ Len(result) = Cardinality(kept)
             /\ \A j \in 1..Len(result) :
                  \E k \in kept : /\ result[j] = chunks[k]
                                  /\ Cardinality({i \in kept : i <= k}) = j

\* witness of C1: a finished call with a valid configuration, more words than
\* max_tokens, overlapping emitted chunks, and a short last chunk that was dropped
C1_Witness ==
  /\ pc = "done" /\ ValidConfig
  /\ overlap > 0
  /\ Len(words) > max_tokens
  /\ Len(chunks) >= 2
  /\ Len(result) >= 1
  /\ Len(result) < Len(chunks)

\* C2 (as stated): a call with overlap >= max_words is rejected at call time
\* with an error outcome, so it is never inside the chunk generation loop
\* with a cursor that failed to advance or moved backward.
C2_InvalidConfigRejected ==
  overlap >= max_tokens =>
     ~(pc = "loop" /\ Len(ranges) >= 1 /\ start <= ranges[Len(ranges)][1])

\* the loop of a call with overlap >= max_tokens that does not advance: the
\* cursor is where it started (or before it) after MaxChunks iterations
C2_LoopDoesNotAdvance ==
  /\ overlap >= max_tokens
  /\ pc = "loop"
  /\ Len(chunks) = MaxChunks
  /\ start <= 0

\* C3: no chunk returned by chunk_text has 50 or fewer words (whatever the
\* configuration); with the default configuration a text of exactly 50 words
\* gives no chunk and a text of exactly 51 words gives exactly one chunk.
C3_NoSmallChunk ==
  /\ \A k \in 1..Len(result) : word_count(result[k]) > MIN_WORDS
  /\ (pc = "done" /\ max_tokens = DEFAULT_MAX_TOKENS /\ overlap = DEFAULT_OVERLAP) =>
       /\ Len(words) = MIN_WORDS => Len(result) = 0
       /\ Len(words) = MIN_WORDS + 1 => Len(result) = 1

\* witness of C3: the default configuration has returned the single chunk of
\* a 51-word text
C3_Witness ==
  /\ pc = "done"
  /\ max_tokens = DEFAULT_MAX_TOKENS /\ overlap = DEFAULT_OVERLAP
  /\ Len(words) = MIN_WORDS + 1
  /\ Len(result) = 1
  /\ word_count(result[1]) = MIN_WORDS + 1

(***************************************************************************)
(* Properties of the metadata extractors (checked under SpecMeta).         *)
(***************************************************************************)
\* the first "ATA Chapter NN" occurrence of a text, "" when there is none
FirstAtaChapter(t) == group0("ata_chapter", t)

\* C10 (as stated): when the text has an "ATA Chapter NN" occurrence, the
\* extracted chapter is the first such occurrence, even when a bare "ATA NN"
\* comes earlier in the text, and infer_chapter and extract_metadata return
\* the same chapter for every text.
C10_ChapterVariantOrder ==
  mpc = "done" =>
     /\ FirstAtaChapter(mtext) # <<>> =>
          /\ m_chapter = FirstAtaChapter(mtext)
          /\ m_metadata.ata_chapter = FirstAtaChapter(mtext)
     /\ m_metadata.ata_chapter = m_chapter

\* what holds of infer_chapter alone: "ATA Chapter NN" wins over an earlier
\* bare "ATA NN"
C10_InferChapterOrdered ==
  mpc \in {"part_number", "extract_metadata", "done"} =>
     /\ FirstAtaChapter(mtext) # <<>> => m_chapter = FirstAtaChapter(mtext)
     /\ FirstAtaChapter(mtext) = <<>> => m_chapter = group0("ata_bare", mtext)

\* a text where a bare "ATA NN" comes before an "ATA Chapter NN" and the two
\* extractors have given different chapters
C10_ExtractorsDisagree ==
  /\ mpc = "done"
  /\ m_chapter # m_metadata.ata_chapter
  /\ m_chapter = <<"ATA", " ", "Chapter", " ", "49">>
  /\ m_metadata.ata_chapter = <<"ATA", " ", "12">>

(***************************************************************************)
(* Properties of ingestion (checked under SpecIngest).                     *)
(***************************************************************************)
\* the normalized text of the first n pages of a manual
RECURSIVE NormUpTo(_, _)
NormUpTo(m, n) ==
  IF n = 0 THEN <<>> ELSE Append(NormUpTo(m, n - 1), normalize(RawPages(m)[n]))

\* the normalized text of every page of every manual
NormPages ==
  [APU_MANUAL_001 |-> NormUpTo("APU_MANUAL_001", Len(RawPages("APU_MANUAL_001"))),
   ENG_MANUAL_002 |-> NormUpTo("ENG_MANUAL_002", Len(RawPages("ENG_MANUAL_002")))]

\* the metadata of the whole normalized text of the first n pages of a manual
RECURSIVE MetaUpTo(_, _)
MetaUpTo(m, n) ==
  IF n = 0 THEN <<>>
  ELSE Append(MetaUpTo(m, n - 1),
              [section |-> infer_section(NormPages[m][n]),
               chapter |-> infer_chapter(NormPages[m][n]),
               part_number |-> infer_part_number(NormPages[m][n])])

PageMeta ==
  [APU_MANUAL_001 |-> MetaUpTo("APU_MANUAL_001", Len(RawPages("APU_MANUAL_001"))),
   ENG_MANUAL_002 |-> MetaUpTo("ENG_MANUAL_002", Len(RawPages("ENG_MANUAL_002")))]

\* the number of chunks of the first n pages of a manual
RECURSIVE ChunksUpTo(_, _)
ChunksUpTo(m, n) ==
  IF n = 0 THEN 0
  ELSE ChunksUpTo(m, n - 1)
         + Len(chunk_text(NormPages[m][n], DEFAULT_MAX_TOKENS, DEFAULT_OVERLAP))

\* the number of chunks of every manual
NChunks ==
  [APU_MANUAL_001 |-> ChunksUpTo("APU_MANUAL_001", Len(RawPages("APU_MANUAL_001"))),
   ENG_MANUAL_002 |-> ChunksUpTo("ENG_MANUAL_002", Len(RawPages("ENG_MANUAL_002")))]

\* the pages of every manual whose normalized text is empty
EmptyPagesOf(m) == {i \in 1..Len(RawPages(m)) : NormPages[m][i] = <<>>}
EmptyPageSets ==
  [APU_MANUAL_001 |-> EmptyPagesOf("APU_MANUAL_001"),
   ENG_MANUAL_002 |-> EmptyPagesOf("ENG_MANUAL_002")]
EmptyPages(m) == EmptyPageSets[m]

StoredOf(m) == {i \in DOMAIN es_docs : es_docs[i].manual_id = m}

InRun(p) == ipc[p] \in {"pages", "chunks", "done", "error"} /\ raised[p] # "BadRequestError"

\* C4 (as stated): when the batch write rejects some documents of a run, the
\* run does not raise: it completes and reports to its caller the counts of
\* documents persisted and rejected.
C4_PartialFailureReported ==
  \A p \in Procs :
     rejected[p] # {} =>
        /\ ipc[p] = "done"
        /\ raised[p] = ""
        /\ returned[p] = <<Len(actions[p]) - Cardinality(rejected[p]),
                           Cardinality(rejected[p])>>

\* C5 (as stated): a run produces documents only from the pages whose
\* normalized text is not empty, visits them in page order, and returns the
\* count of documents indexed and the count of pages skipped.
C5_DocsAndCountsReturned ==
  \A p \in Procs :
     ipc[p] = "done" =>
        /\ \A k \in 1..Len(actions[p]) :
             actions[p][k].source.page \notin EmptyPages(manual_id[p])
        /\ \A i, j \in 1..Len(meta_calls[p]) : i < j => meta_calls[p][i] < meta_calls[p][j]
        /\ returned[p] = <<Len(actions[p]), Cardinality(EmptyPages(manual_id[p]))>>

\* what holds of the documents of C5: they come only from the non-empty
\* pages, taken in page order, and the skipped pages are counted nowhere
C5_DocsFromNonEmptyPages ==
  \A p \in Procs :
     InRun(p) =>
        /\ \A k \in 1..Len(actions[p]) :
             actions[p][k].source.page \notin EmptyPages(manual_id[p])
        /\ \A i \in 1..Len(pages[p]) : pages[p][i].page \notin EmptyPages(manual_id[p])
        /\ \A i, j \in 1..Len(pages[p]) : i < j => pages[p][i].page < pages[p][j].page
        /\ \A i, j \in 1..Len(actions[p]) :
             i < j => actions[p][i].source.page <= actions[p][j].source.page
        /\ returned[p] = <<>>

\* the 3-page manual whose page 2 is empty: the run is done, its documents
\* are of pages 1 and 3, and nothing is returned
C5_ThreePageManualDone ==
  \E p \in Procs :
     /\ ipc[p] = "done"
     /\ manual_id[p] = "APU_MANUAL_001"
     /\ {actions[p][k].source.page : k \in 1..Len(actions[p])} = {1, 3}
     /\ EmptyPages(manual_id[p]) = {2}
     /\ returned[p] = <<>>

\* C6 (as stated): two runs for different manuals share no mutable state:
\* whatever the interleaving of their steps, when the engine rejects no
\* document both complete without error.
C6_ConcurrentRunsComplete ==
  (/\ manual_id["p1"] # manual_id["p2"]
   /\ \A p \in Procs : rejected[p] = {})
     => \A p \in Procs : ipc[p] # "error" /\ raised[p] = ""

\* C7: every chunk gets an identifier of its own: the identifiers of the
\* actions of the runs are pairwise distinct, no document indexed replaces an
\* earlier one, and the engine holds for a manual ingested n times, N chunks
\* each, n*N documents less the documents it refused.
C7_FreshIdentifiers ==
  /\ \A p \in Procs : \A i, j \in 1..Len(actions[p]) :
        i # j => actions[p][i].id # actions[p][j].id
  /\ \A p, q \in Procs : \A i \in 1..Len(actions[p]) : \A j \in 1..Len(actions[q]) :
        p # q => actions[p][i].id # actions[q][j].id
  /\ \A m \in ManualIds :
        /\ Cardinality(StoredOf(m)) = accepted[m]
        /\ accepted[m] = bulk_runs[m] * NChunks[m] - refused[m]

\* witness of C7: the same manual ingested twice, both batch writes accepted
\* whole: twice its 2 chunks are stored
C7_Witness ==
  \E m \in ManualIds :
     /\ bulk_runs[m] = 2
     /\ refused[m] = 0
     /\ NChunks[m] = 2
     /\ Cardinality(StoredOf(m)) = 4

\* the pages of its list a run has entered the loop body for
PagesEntered(p) ==
  IF ipc[p] = "chunks" THEN page_idx[p]
  ELSE IF InRun(p) THEN page_idx[p] - 1 ELSE 0

\* C9: metadata is extracted exactly once per page, before any chunk of the
\* page becomes a document, and every document carries the section, chapter
\* and part number of the whole normalized text of its page.
C9_MetadataOncePerPage ==
  \A p \in Procs :
     InRun(p) =>
        /\ Len(meta_calls[p]) = PagesEntered(p)
        /\ \A i \in 1..Len(meta_calls[p]) : meta_calls[p][i] = pages[p][i].page
        /\ \A k \in 1..Len(actions[p]) :
             LET d == actions[p][k].source
             IN /\ \E i \in 1..Len(meta_calls[p]) : meta_calls[p][i] = d.page
                /\ d.section = PageMeta[manual_id[p]][d.page].section
                /\ d.chapter = PageMeta[manual_id[p]][d.page].chapter
                /\ d.part_number = PageMeta[manual_id[p]][d.page].part_number

\* witness of C9: two documents of the same page, the second a chunk whose
\* own text has no section heading, both with the section of the page
C9_Witness ==
  \E p \in Procs : \E i, j \in 1..Len(actions[p]) :
     /\ i < j
     /\ actions[p][i].source.page = actions[p][j].source.page
     /\ actions[p][i].source.content # actions[p][j].source.content
     /\ actions[p][j].source.section # <<>>
     /\ actions[p][j].source.section = actions[p][i].source.section
     /\ infer_section(actions[p][j].source.content) = <<>>

(***************************************************************************)
(* Properties of search (checked under SpecSearch).                        *)
(***************************************************************************)
\* C8 (as stated): a search returns at most k hits, every hit with a fused
\* score strictly greater than the score of the hit after it.
C8_StrictlyDescending ==
  spc = "done" =>
     /\ Len(hits) <= size
     /\ \A i \in 1..(Len(hits) - 1) : hits[i].score > hits[i + 1].score

\* C8 (amended): a search returns at most k hits, in order of descending
\* fused score, no hit with a fused score lower than the hit after it; two
\* hits can have the same fused score.
C8_AtMostKDescending ==
  spc = "done" =>
     /\ Len(hits) <= size
     /\ \A i \in 1..(Len(hits) - 1) : hits[i].score >= hits[i + 1].score
     /\ \A i \in 1..Len(hits) : hits[i].score = rrf_score(lexical, vector, hits[i].id)

\* witness of C8: more candidates than the size asked, size hits returned,
\* the first two with the same fused score and the last with a lower one
C8_Witness ==
  /\ spc = "done"
  /\ size = 3
  /\ Cardinality(Candidates(lexical, vector)) > size
  /\ Len(hits) = size
  /\ hits[1].score = hits[2].score
  /\ hits[2].score > hits[3].score

====
